---- MODULE Spec2Model ----
(***************************************************************************)
(* CCF-Rank: the venue-name Matcher (CCFRankService), the bibliographic    *)
(* field extractor (getEntryFromItem), the Manual Override Store           *)
(* (ManualCCFRankService) and the ccfRank column (CCFRankFactory) of       *)
(* src/src/modules/ccfRank.ts.                                             *)
(*                                                                         *)
(* A JavaScript string is a sequence of one-character strings; Undefined   *)
(* stands for a string that is absent (null, undefined), Null for an       *)
(* absent object.                                                          *)
(***************************************************************************)
EXTENDS Integers, Sequences, FiniteSets, TLC

Null == [null |-> TRUE]
Undefined == <<"undefined">>

\* a Zotero preference: never set, or the value last written
NoPref == [set |-> FALSE, value |-> <<>>]
Pref(v) == [set |-> TRUE, value |-> v]

(***************************************************************************)
(* Characters and the character classes of the regular expressions.        *)
(***************************************************************************)
UpperLetters == <<"A","B","C","D","E","F","G","H","I","J","K","L","M",
                  "N","O","P","Q","R","S","T","U","V","W","X","Y","Z">>
LowerLetters == <<"a","b","c","d","e","f","g","h","i","j","k","l","m",
                  "n","o","p","q","r","s","t","u","v","w","x","y","z">>
Digits == {"0","1","2","3","4","5","6","7","8","9"}
WhiteSpace == {" ", "\t", "\n"}

Range(f) == {f[i] : i \in DOMAIN f}

UpperClass == Range(UpperLetters)
LowerClass == Range(LowerLetters)
LetterClass == UpperClass \cup LowerClass

IsDigit(c) == c \in Digits

\* the lower-case letter of each upper-case letter
LowerOf ==
  [c \in UpperClass |->
     LowerLetters[CHOOSE i \in DOMAIN UpperLetters : UpperLetters[i] = c]]

LowerChar(c) == IF c \in UpperClass THEN LowerOf[c] ELSE c

\* String.prototype.toLowerCase
toLowerCase(s) == [i \in 1..Len(s) |-> LowerChar(s[i])]

\* s.substring(n): s without its first n characters
DropFirst(s, n) == SubSeq(s, n + 1, Len(s))

\* The number of consecutive characters of s, from position p on, that are
\* in the class Cls: a greedy  [class]*  at p.
RECURSIVE Span(_, _, _)
Span(s, p, Cls) ==
  IF p <= Len(s) /\ s[p] \in Cls THEN 1 + Span(s, p + 1, Cls) ELSE 0

\* The number of consecutive characters of s, going backwards from position
\* p, that are in the class Cls.
RECURSIVE SpanBack(_, _, _)
SpanBack(s, p, Cls) ==
  IF p >= 1 /\ s[p] \in Cls THEN 1 + SpanBack(s, p - 1, Cls) ELSE 0

\* String.prototype.trim
trim(s) ==
  LET a == Span(s, 1, WhiteSpace)
      b == SpanBack(s, Len(s), WhiteSpace)
  IN IF a = Len(s) THEN <<>> ELSE SubSeq(s, a + 1, Len(s) - b)

\* The literal lit matches s at position p, letter case ignored (flag i).
LitAt(s, p, lit) ==
  /\ p + Len(lit) - 1 <= Len(s)
  /\ \A i \in 1..Len(lit) : LowerChar(s[p + i - 1]) = lit[i]

\* The n characters of s from position p are digits: \d{n} at p.
DigitsAt(s, p, n) ==
  /\ p + n - 1 <= Len(s)
  /\ \A i \in 0..(n - 1) : IsDigit(s[p + i])

\* String.prototype.includes
Includes(s, k) ==
  \E i \in 0..(Len(s) - Len(k)) : SubSeq(s, i + 1, i + Len(k)) = k

\* "proceedings of "
ProceedingsOf == <<"p","r","o","c","e","e","d","i","n","g","s"," ","o","f"," ">>
The == <<"t","h","e"," ">>
On == <<"o","n">>
Proc == <<"p","r","o","c">>
Of == <<" ","o","f"," ">>

(***************************************************************************)
(* The normalization pipeline of getEntry: one operator per .replace, each *)
(* giving the string with the match removed (the string itself when the   *)
(* pattern does not match).                                                *)
(***************************************************************************)
YearLen == 4

\* \d{4}\s+(on\s+)?  at position p: the position after the match, 0 if none
YearOnAt(s, p) ==
  IF ~DigitsAt(s, p, YearLen) THEN 0
  ELSE LET w == Span(s, p + YearLen, WhiteSpace)
           q == p + YearLen + w
           v == Span(s, q + Len(On), WhiteSpace)
       IN IF w = 0 THEN 0
          ELSE IF LitAt(s, q, On) /\ v >= 1 THEN q + Len(On) + v
          ELSE q

\* /^proceedings of (the )?\d{4}\s+(on\s+)?/i
StripProceedingsYear(s) ==
  IF ~LitAt(s, 1, ProceedingsOf) THEN s
  ELSE LET p == Len(ProceedingsOf) + 1
           withThe == IF LitAt(s, p, The) THEN YearOnAt(s, p + Len(The)) ELSE 0
           without == YearOnAt(s, p)
       IN IF withThe > 0 THEN DropFirst(s, withThe - 1)
          ELSE IF without > 0 THEN DropFirst(s, without - 1)
          ELSE s

\* /^proceedings of (the )?/i
StripProceedings(s) ==
  IF ~LitAt(s, 1, ProceedingsOf) THEN s
  ELSE IF LitAt(s, Len(ProceedingsOf) + 1, The)
       THEN DropFirst(s, Len(ProceedingsOf) + Len(The))
       ELSE DropFirst(s, Len(ProceedingsOf))

\* /^proc\.? of (the )?/i
StripProc(s) ==
  IF ~LitAt(s, 1, Proc) THEN s
  ELSE LET dot == IF Len(s) > Len(Proc) /\ s[Len(Proc) + 1] = "." THEN 1 ELSE 0
           viaDot == dot = 1 /\ LitAt(s, Len(Proc) + 2, Of)
           plain == LitAt(s, Len(Proc) + 1, Of)
           n == IF viaDot THEN Len(Proc) + 1 + Len(Of)
                ELSE IF plain THEN Len(Proc) + Len(Of) ELSE 0
       IN IF n = 0 THEN s
          ELSE IF LitAt(s, n + 1, The) THEN DropFirst(s, n + Len(The))
          ELSE DropFirst(s, n)

MinQuoteYear == 2
MaxQuoteYear == 4

\* /^[a-z]+\s*['']\d{2,4}:\s*/i
StripCodeYear(s) ==
  LET l == Span(s, 1, LetterClass)
      w == Span(s, l + 1, WhiteSpace)
      q == l + w + 1
      d == Span(s, q + 1, Digits)
      c == q + d + 1
  IN IF /\ l >= 1
        /\ q <= Len(s) /\ s[q] = "'"
        /\ d >= MinQuoteYear /\ d <= MaxQuoteYear
        /\ c <= Len(s) /\ s[c] = ":"
     THEN DropFirst(s, c + Span(s, c + 1, WhiteSpace))
     ELSE s

\* /^\d{4}\s+/
StripLeadingYear(s) ==
  LET w == Span(s, YearLen + 1, WhiteSpace)
  IN IF DigitsAt(s, 1, YearLen) /\ w >= 1 THEN DropFirst(s, YearLen + w) ELSE s

\* /\s*\d{4}$/ : the leftmost match is the last four digits with the whole
\* run of white space before them
StripTrailingYear(s) ==
  IF Len(s) >= YearLen /\ DigitsAt(s, Len(s) - YearLen + 1, YearLen)
  THEN SubSeq(s, 1, Len(s) - YearLen - SpanBack(s, Len(s) - YearLen, WhiteSpace))
  ELSE s

\* /\s*\([^)]*\)$/ : the string ends with ")", and the leftmost match starts
\* at the first "(" after the previous ")" (there must be one), with the
\* white space before it
StripTrailingParen(s) ==
  IF Len(s) = 0 \/ s[Len(s)] # ")" THEN s
  ELSE LET closes == {i \in 1..(Len(s) - 1) : s[i] = ")"}
           prev == IF closes = {} THEN 0
                   ELSE CHOOSE i \in closes : \A j \in closes : j <= i
           opens == {i \in (prev + 1)..(Len(s) - 1) : s[i] = "("}
       IN IF opens = {} THEN s
          ELSE LET o == CHOOSE i \in opens : \A j \in opens : i <= j
               IN SubSeq(s, 1, o - 1 - SpanBack(s, o - 1, WhiteSpace))

\* getEntry, lines 64-80: name -> normalized
Normalize(name) ==
  trim(StripTrailingParen(StripTrailingYear(StripLeadingYear(StripCodeYear(
    StripProc(StripProceedings(StripProceedingsYear(
      toLowerCase(trim(name))))))))))

(***************************************************************************)
(* The reference table (ccf-conferences.json) and the index built from it. *)
(* A Map is the sequence of its [key, value] pairs in insertion order.     *)
(***************************************************************************)
Ranks == {"A", "B", "C"}

\* null where a rank string is expected
NullRank == "null"

\* "Networks"
cNET == [abbr |-> <<"N","E","T">>, fullName |-> <<"N","e","t","w","o","r","k","s">>,
         rank |-> "A", category |-> "network"]
\* "Computer Networks"
jCN == [abbr |-> <<"C","N">>, fullName |-> <<"C","o","m","p","u","t","e","r"," ","N","e","t","w","o","r","k","s">>,
        rank |-> "B", category |-> "network"]
\* "Networks", "Networks Journal"
jNetworks == [abbr |-> <<"N","e","t","w","o","r","k","s">>, fullName |-> <<"N","e","t","w","o","r","k","s"," ","J","o","u","r","n","a","l">>,
              rank |-> "C", category |-> "network"]
\* "Journal of Software"
jJOS == [abbr |-> <<"J","O","S">>, fullName |-> <<"J","o","u","r","n","a","l"," ","o","f"," ","S","o","f","t","w","a","r","e">>,
         rank |-> "B", category |-> "software"]
\* "Information Sciences"
jIS == [abbr |-> <<"I","S">>, fullName |-> <<"I","n","f","o","r","m","a","t","i","o","n"," ","S","c","i","e","n","c","e","s">>,
        rank |-> "B", category |-> "database"]
\* "PVLDB", "Proceedings of the VLDB Endowment"
jPVLDB == [abbr |-> <<"P","V","L","D","B">>, fullName |-> <<"P","r","o","c","e","e","d","i","n","g","s"," ","o","f"," ","t","h","e"," ","V","L","D","B"," ","E","n","d","o","w","m","e","n","t">>,
           rank |-> "A", category |-> "database"]

ConferencePool == {cNET}
JournalPool == {jCN, jNetworks, jJOS, jIS, jPVLDB}

MaxEntries == 2

RECURSIVE SeqsUpTo(_, _)
SeqsUpTo(S, n) ==
  IF n = 0 THEN {<<>>}
  ELSE LET shorter == SeqsUpTo(S, n - 1)
       IN shorter \cup {Append(q, x) : q \in shorter, x \in S}

\* the contents ccf-conferences.json may have
Tables ==
  {[conferences |-> c, journals |-> j] :
     c \in SeqsUpTo(ConferencePool, 1), j \in SeqsUpTo(JournalPool, MaxEntries)}

\* Map.prototype.set: a key already present keeps its place and takes the
\* new value
MapSet(m, k, v) ==
  IF \E i \in DOMAIN m : m[i].key = k
  THEN [i \in DOMAIN m |-> IF m[i].key = k THEN [key |-> k, value |-> v] ELSE m[i]]
  ELSE Append(m, [key |-> k, value |-> v])

\* Map.prototype.get: the value, or undefined
MapGet(m, k) ==
  IF \E i \in DOMAIN m : m[i].key = k
  THEN m[CHOOSE i \in DOMAIN m : m[i].key = k].value
  ELSE Null

\* constructor, lines 40-44: the two maps after the first n entries
RECURSIVE IndexAbbrs(_, _)
IndexAbbrs(allEntries, n) ==
  IF n = 0 THEN <<>>
  ELSE MapSet(IndexAbbrs(allEntries, n - 1),
              toLowerCase(allEntries[n].abbr), allEntries[n])

RECURSIVE IndexFullNames(_, _)
IndexFullNames(allEntries, n) ==
  IF n = 0 THEN <<>>
  ELSE MapSet(IndexFullNames(allEntries, n - 1),
              toLowerCase(allEntries[n].fullName), allEntries[n])

MinAbbrLen == 4
MinFullNameLen == 20

VARIABLES
  conferences, journals,    \* CCFRankService.conferences, .journals
  abbrsMap, fullNamesMap,   \* CCFRankService.abbrsMap, .fullNamesMap
  name,                     \* the argument of the last getEntry call
  found,                    \* what that call computed and returned
  fedBack,                  \* the last call's argument was the normalized
                            \* string of the call before it
  item,                     \* the argument of the last getEntryFromItem call
  itemEntry,                \* what that call returned
  cache, ignoreSet,         \* ManualCCFRankService.cache, .ignoreSet
  prefRanks, prefIgnore,    \* Zotero.Prefs under storageKey and ignoreKey
  lastSave,                 \* how the last saveToStorage ended
  lastCall,                 \* the last menu command and the items selected
  column                    \* the text the ccfRank column shows per item

svcVars == <<conferences, journals, abbrsMap, fullNamesMap>>
matchVars == <<name, found, fedBack>>
itemVars == <<item, itemEntry>>
storeVars ==
  <<cache, ignoreSet, prefRanks, prefIgnore, lastSave, lastCall, column>>
vars == <<svcVars, matchVars, itemVars, storeVars>>

(***************************************************************************)
(* CCFRankService.getEntry                                                 *)
(***************************************************************************)
\* a guard one character too lax
AbbrGuardLax(k) == Len(k) >= MinAbbrLen - 1

\* line 110: key.length >= 4
AbbrGuard(k) == Len(k) >= MinAbbrLen

\* line 122: key.length >= 20
FullNameGuard(k) == Len(k) >= MinFullNameLen

\* lines 109-116
FuzzyAbbr(normalized) ==
  LET hits == {i \in DOMAIN abbrsMap :
                 AbbrGuard(abbrsMap[i].key) /\ Includes(normalized, abbrsMap[i].key)}
  IN IF hits = {} THEN 0 ELSE CHOOSE i \in hits : \A j \in hits : i <= j

\* lines 121-128
FuzzyFullName(normalized) ==
  LET hits == {i \in DOMAIN fullNamesMap :
                 /\ FullNameGuard(fullNamesMap[i].key)
                 /\ Includes(normalized, fullNamesMap[i].key)}
  IN IF hits = {} THEN 0 ELSE CHOOSE i \in hits : \A j \in hits : i <= j

NoEntry ==
  [entry |-> Null, via |-> "none", key |-> Undefined, normalized |-> Undefined]

\* the chain with strategy 3 tried before strategy 2
MatchNormalizedFuzzyFirst(normalized) ==
  LET byAbbr == MapGet(abbrsMap, normalized)
      byFull == MapGet(fullNamesMap, normalized)
      fa == FuzzyAbbr(normalized)
      ff == FuzzyFullName(normalized)
  IN IF byAbbr # Null
     THEN [entry |-> byAbbr, via |-> "abbr exact", key |-> normalized,
           normalized |-> normalized]
     ELSE IF fa # 0
     THEN [entry |-> abbrsMap[fa].value, via |-> "abbr fuzzy",
           key |-> abbrsMap[fa].key, normalized |-> normalized]
     ELSE IF byFull # Null
     THEN [entry |-> byFull, via |-> "fullName exact", key |-> normalized,
           normalized |-> normalized]
     ELSE IF ff # 0
     THEN [entry |-> fullNamesMap[ff].value, via |-> "fullName fuzzy",
           key |-> fullNamesMap[ff].key, normalized |-> normalized]
     ELSE [entry |-> Null, via |-> "none", key |-> Undefined,
           normalized |-> normalized]

\* lines 86-131: the strategy chain on the normalized string.  via and key
\* record the return statement taken and the map key it used.
MatchNormalized(normalized) ==
  LET byAbbr == MapGet(abbrsMap, normalized)
      byFull == MapGet(fullNamesMap, normalized)
      fa == FuzzyAbbr(normalized)
      ff == FuzzyFullName(normalized)
  IN IF byAbbr # Null
     THEN [entry |-> byAbbr, via |-> "abbr exact", key |-> normalized,
           normalized |-> normalized]
     ELSE IF byFull # Null
     THEN [entry |-> byFull, via |-> "fullName exact", key |-> normalized,
           normalized |-> normalized]
     ELSE IF fa # 0
     THEN [entry |-> abbrsMap[fa].value, via |-> "abbr fuzzy",
           key |-> abbrsMap[fa].key, normalized |-> normalized]
     ELSE IF ff # 0
     THEN [entry |-> fullNamesMap[ff].value, via |-> "fullName fuzzy",
           key |-> fullNamesMap[ff].key, normalized |-> normalized]
     ELSE [entry |-> Null, via |-> "none", key |-> Undefined,
           normalized |-> normalized]

\* lines 59-132
getEntry(s) ==
  IF s = Undefined \/ s = <<>> THEN NoEntry ELSE MatchNormalized(Normalize(s))

(***************************************************************************)
(* The Matcher on its own: the table is any of Tables, and getEntry is     *)
(* called with venue strings, with the names of the table's entries, and   *)
(* with the normalized string of the call before.  getEntry changes no     *)
(* state, so one call and its feeding back are followed from each table.   *)
(***************************************************************************)
Fragments ==
  \* "Networks", "Computer ", "Journal of Software", "Information Sciences"
  { <<"N","e","t","w","o","r","k","s">>, <<"C","o","m","p","u","t","e","r"," ">>, <<"J","o","u","r","n","a","l"," ","o","f"," ","S","o","f","t","w","a","r","e">>, <<"I","n","f","o","r","m","a","t","i","o","n"," ","S","c","i","e","n","c","e","s">>,
    \* " 2024", "Proceedings of the ", " (x)"
    <<" ","2","0","2","4">>, <<"P","r","o","c","e","e","d","i","n","g","s"," ","o","f"," ","t","h","e"," ">>, <<"N","E","T">>, <<" ","(","x",")">> }

MaxFragments == 2

RECURSIVE Concatenations(_)
Concatenations(n) ==
  IF n = 0 THEN {<<>>}
  ELSE LET shorter == Concatenations(n - 1)
       IN shorter \cup {q \o f : q \in shorter, f \in Fragments}

Inputs == Concatenations(MaxFragments)

allEntries == conferences \o journals

\* constructor, lines 33-45
Construct(ccfData) ==
  /\ conferences = ccfData.conferences
  /\ journals = ccfData.journals
  /\ abbrsMap = IndexAbbrs(ccfData.conferences \o ccfData.journals,
                           Len(ccfData.conferences) + Len(ccfData.journals))
  /\ fullNamesMap = IndexFullNames(ccfData.conferences \o ccfData.journals,
                                   Len(ccfData.conferences) + Len(ccfData.journals))

DefaultData == [conferences |-> <<cNET>>, journals |-> <<jCN, jIS>>]

NoItem == [itemType |-> Null]
NoCall == [op |-> "none", ids |-> {}]

IdleMatch == name = Undefined /\ found = NoEntry /\ fedBack = FALSE
IdleItem == item = NoItem /\ itemEntry = Null
IdleStore ==
  /\ cache = <<>> /\ ignoreSet = <<>>
  /\ prefRanks = NoPref /\ prefIgnore = NoPref
  /\ lastSave = "none" /\ lastCall = NoCall /\ column = <<>>

InitMatch ==
  /\ \E ccfData \in Tables : Construct(ccfData)
  /\ IdleMatch /\ IdleItem /\ IdleStore

\* getEntry(s), s a venue string
Lookup(s) ==
  /\ name = Undefined
  /\ name' = s
  /\ found' = getEntry(s)
  /\ fedBack' = FALSE
  /\ UNCHANGED <<svcVars, itemVars, storeVars>>

\* getEntry(E.abbr), E the i-th entry of the table
LookupAbbr(i) ==
  /\ name = Undefined
  /\ name' = allEntries[i].abbr
  /\ found' = getEntry(allEntries[i].abbr)
  /\ fedBack' = FALSE
  /\ UNCHANGED <<svcVars, itemVars, storeVars>>

\* getEntry(E.fullName), E the i-th entry of the table
LookupFullName(i) ==
  /\ name = Undefined
  /\ name' = allEntries[i].fullName
  /\ found' = getEntry(allEntries[i].fullName)
  /\ fedBack' = FALSE
  /\ UNCHANGED <<svcVars, itemVars, storeVars>>

\* getEntry(normalized), normalized the string the last call normalized its
\* argument to
Relookup ==
  /\ found.normalized # Undefined
  /\ ~fedBack
  /\ name' = found.normalized
  /\ found' = getEntry(found.normalized)
  /\ fedBack' = TRUE
  /\ UNCHANGED <<svcVars, itemVars, storeVars>>

NextMatch ==
  \/ \E s \in Inputs : Lookup(s)
  \/ \E i \in DOMAIN allEntries : LookupAbbr(i)
  \/ \E i \in DOMAIN allEntries : LookupFullName(i)
  \/ Relookup

SpecMatch == InitMatch /\ [][NextMatch]_vars

(***************************************************************************)
(* Properties of the Matcher, checked under SpecMatch.                     *)
(***************************************************************************)
Called == found.normalized # Undefined

\* the abbreviation keys of at least 4 characters that n contains and that
\* belong to an entry other than E
OtherLongAbbrIn(n, E) ==
  {i \in DOMAIN abbrsMap :
     /\ Len(abbrsMap[i].key) >= 4
     /\ Includes(n, abbrsMap[i].key)
     /\ abbrsMap[i].value # E}

\* C4 as stated: whenever the normalized input equals a full-name key of an
\* entry E and contains an abbreviation key of at least 4 characters of a
\* different entry F, getEntry returns E.
C4_ExactFullNameBeatsFuzzyAbbr_Original ==
  Called =>
    LET E == MapGet(fullNamesMap, found.normalized)
    IN (E # Null /\ OtherLongAbbrIn(found.normalized, E) # {})
         => found.entry = E

\* C4 as amended: whenever the normalized input equals a full-name key of an
\* entry E, equals no abbreviation key, and contains an abbreviation key of
\* at least 4 characters of a different entry F, getEntry returns E, through
\* the exact full-name strategy; when it equals an abbreviation key, the
\* entry of that key is returned instead (strategy 1 comes first).
C4_ExactFullNameBeatsFuzzyAbbr ==
  Called =>
    LET E == MapGet(fullNamesMap, found.normalized)
        G == MapGet(abbrsMap, found.normalized)
    IN (E # Null /\ OtherLongAbbrIn(found.normalized, E) # {})
         => IF G = Null
            THEN found.entry = E /\ found.via = "fullName exact"
            ELSE found.entry = G /\ found.via = "abbr exact"

\* a call whose normalized input equals a full-name key of E, equals no
\* abbreviation key and contains a long abbreviation key of another entry
C4_Witness ==
  /\ Called
  /\ MapGet(abbrsMap, found.normalized) = Null
  /\ MapGet(fullNamesMap, found.normalized) # Null
  /\ OtherLongAbbrIn(found.normalized, MapGet(fullNamesMap, found.normalized)) # {}
  /\ found.entry = MapGet(fullNamesMap, found.normalized)

\* C5 as stated: for every entry E of the table, getEntry(E.abbr) returns E
\* and getEntry(E.fullName) returns E.
C5_ExactnessRoundTrips ==
  name # Undefined =>
    \A i \in DOMAIN allEntries :
      (name = allEntries[i].abbr \/ name = allEntries[i].fullName)
        => found.entry = allEntries[i]

\* C6 as stated: normalizing a normalized string gives the same string.
C6_NormalizeIdempotent ==
  (fedBack /\ Called) => found.normalized = name

\* C7: an entry returned through fuzzy abbreviation containment has a key of
\* at least 4 characters, one returned through fuzzy full-name containment a
\* key of at least 20 characters; and an input that equals no key and
\* contains no abbreviation key of 4 or more characters and no full-name key
\* of 20 or more characters yields null.
C7_FuzzyGuardsStrict ==
  /\ found.via = "abbr fuzzy" => Len(found.key) >= 4
  /\ found.via = "fullName fuzzy" => Len(found.key) >= 20
  /\ (/\ Called
      /\ MapGet(abbrsMap, found.normalized) = Null
      /\ MapGet(fullNamesMap, found.normalized) = Null
      /\ \A i \in DOMAIN abbrsMap :
           Includes(found.normalized, abbrsMap[i].key) => Len(abbrsMap[i].key) < 4
      /\ \A i \in DOMAIN fullNamesMap :
           Includes(found.normalized, fullNamesMap[i].key)
             => Len(fullNamesMap[i].key) < 20)
     => found.entry = Null

\* a call whose normalized input equals no key but contains an abbreviation
\* key of 3 characters and a full-name key of 19 characters, and returns null
C7_Witness ==
  /\ Called
  /\ found.entry = Null
  /\ MapGet(abbrsMap, found.normalized) = Null
  /\ MapGet(fullNamesMap, found.normalized) = Null
  /\ \E i \in DOMAIN abbrsMap :
       Includes(found.normalized, abbrsMap[i].key) /\ Len(abbrsMap[i].key) = 3
  /\ \E i \in DOMAIN fullNamesMap :
       Includes(found.normalized, fullNamesMap[i].key) /\ Len(fullNamesMap[i].key) = 19

(***************************************************************************)
(* CCFRankService.getEntryFromItem.  A Zotero item is a record of its      *)
(* itemType and of what getField gives for each field: a string, Undefined *)
(* (no value), or Throws when the read raises an exception.                *)
(***************************************************************************)
Throws == <<"throws">>

getField(it, field) == it[field]

\* if (value) ... : a non-empty string
Truthy(v) == v # Undefined /\ v # <<>>

\* lines 204-207 (and 214-217, 222-225, 234-237, 243-246): one field of the
\* chain.  "throw": the read raised; "return": the field matched and its
\* entry is returned; "next": the chain goes on.
TryField(v) ==
  IF v = Throws THEN [kind |-> "throw", entry |-> Null]
  ELSE IF ~Truthy(v) THEN [kind |-> "next", entry |-> Null]
  ELSE LET entry == getEntry(v).entry
       IN IF entry # Null THEN [kind |-> "return", entry |-> entry]
          ELSE [kind |-> "next", entry |-> Null]

\* /\(([A-Z]+['']?\d*)\)/ at the "(" of position o: the captured group, or
\* Undefined
TokenAt(t, o) ==
  LET u == Span(t, o + 1, UpperClass)
      q == IF o + u + 1 <= Len(t) /\ t[o + u + 1] = "'" THEN 1 ELSE 0
      d == Span(t, o + u + q + 1, Digits)
      c == o + u + q + d + 1
  IN IF u >= 1 /\ c <= Len(t) /\ t[c] = ")"
     THEN SubSeq(t, o + 1, c - 1)
     ELSE Undefined

\* title.match(/\(([A-Z]+['']?\d*)\)/), line 253: match[1] of the leftmost
\* match, Undefined when there is no match
TitleToken(t) ==
  LET at == {o \in 1..Len(t) : t[o] = "(" /\ TokenAt(t, o) # Undefined}
  IN IF at = {} THEN Undefined
     ELSE TokenAt(t, CHOOSE o \in at : \A j \in at : o <= j)

\* match[1].replace(/[''].*/, ""), line 256
StripQuoteSuffix(m) ==
  LET q == {i \in 1..Len(m) : m[i] = "'"}
  IN IF q = {} THEN m
     ELSE SubSeq(m, 1, (CHOOSE i \in q : \A j \in q : i <= j) - 1)

\* lines 250-259: the title fallback
TryTitle(t) ==
  IF t = Throws THEN [kind |-> "throw", entry |-> Null]
  ELSE IF ~Truthy(t) THEN [kind |-> "next", entry |-> Null]
  ELSE LET match == TitleToken(t)
           entry == getEntry(StripQuoteSuffix(match)).entry
       IN IF match # Undefined /\ entry # Null
          THEN [kind |-> "return", entry |-> entry]
          ELSE [kind |-> "next", entry |-> Null]

\* the conference-paper steps in another order: publicationTitle first
ConferenceStepsSwapped(it) ==
  << TryField(getField(it, "publicationTitle")),
     TryField(getField(it, "proceedingsTitle")),
     TryField(getField(it, "conferenceName")) >>

\* lines 197-226: the steps taken for a conferencePaper
ConferenceSteps(it) ==
  << TryField(getField(it, "proceedingsTitle")),
     TryField(getField(it, "publicationTitle")),
     TryField(getField(it, "conferenceName")) >>

\* lines 229-238: the steps taken for a journalArticle
JournalSteps(it) == << TryField(getField(it, "publicationTitle")) >>

\* the fallback without its title step
FallbackStepsNoTitle(it) == << TryField(getField(it, "publicationTitle")) >>

\* lines 240-259: the steps taken for every item type, after the above
FallbackSteps(it) ==
  << TryField(getField(it, "publicationTitle")),
     TryTitle(getField(it, "title")) >>

\* lines 192-264: the steps in order; the first "return" ends the function
\* with its entry, a "throw" goes to the catch block and line 264
\* returns null, as does the end of the steps
RECURSIVE RunSteps(_, _)
RunSteps(steps, i) ==
  IF i > Len(steps) THEN Null
  ELSE IF steps[i].kind = "throw" THEN Null
  ELSE IF steps[i].kind = "return" THEN steps[i].entry
  ELSE RunSteps(steps, i + 1)

\* lines 189-265
getEntryFromItem(it) ==
  IF it = Null THEN Null
  ELSE RunSteps(
         (IF it.itemType = "conferencePaper" THEN ConferenceSteps(it) ELSE <<>>)
         \o (IF it.itemType = "journalArticle" THEN JournalSteps(it) ELSE <<>>)
         \o FallbackSteps(it), 1)

\* lines 164-167
getRankFromItem(it) ==
  LET entry == getEntryFromItem(it)
  IN IF entry = Null THEN NullRank ELSE entry.rank

(***************************************************************************)
(* The extractor on its own, over the index of DefaultData.                *)
(***************************************************************************)
ItemTypes == {"conferencePaper", "journalArticle", "book"}

VenueValues ==
  \* "Computer Networks 2024", "Unknown venue"
  { Undefined, <<>>, Throws, <<"N","E","T">>, <<"C","o","m","p","u","t","e","r"," ","N","e","t","w","o","r","k","s"," ","2","0","2","4">>, <<"U","n","k","n","o","w","n"," ","v","e","n","u","e">> }

TitleValues ==
  \* "A paper", "A paper (NET)", "A paper (IS'21)"
  { <<>>, Throws, <<"A"," ","p","a","p","e","r">>, <<"A"," ","p","a","p","e","r"," ","(","N","E","T",")">>, <<"A"," ","p","a","p","e","r"," ","(","I","S","'","2","1",")">> }

Items ==
  [itemType : ItemTypes, proceedingsTitle : VenueValues,
   publicationTitle : VenueValues, conferenceName : VenueValues,
   title : TitleValues]

InitItem ==
  /\ Construct(DefaultData)
  /\ IdleMatch /\ IdleItem /\ IdleStore

\* a caller's getEntryFromItem(it)
GetEntryFromItem(it) ==
  /\ item = NoItem
  /\ item' = it
  /\ itemEntry' = getEntryFromItem(it)
  /\ UNCHANGED <<svcVars, matchVars, storeVars>>

NextItem == \E it \in Items \cup {Null} : GetEntryFromItem(it)

SpecItem == InitItem /\ [][NextItem]_vars

(***************************************************************************)
(* Properties of the extractor, checked under SpecItem.                    *)
(***************************************************************************)
ItemCalled == item # NoItem /\ item # Null

Readable(v) == v # Throws

\* the Matcher's entry for a field value that was read: null for a field
\* without value or empty
MatchOf(v) == IF Truthy(v) THEN getEntry(v).entry ELSE Null

\* C8: for a conferencePaper whose fields are read without error up to the
\* first one that matches, the result is the entry of the first of
\* proceedingsTitle, publicationTitle, conferenceName whose match is
\* non-null: an earlier field that is non-empty and matches nothing does not
\* stop the chain, and a later field's match is not returned when an earlier
\* field matches.
C8_ConferenceFieldOrder ==
  (ItemCalled /\ item.itemType = "conferencePaper") =>
    LET p == item.proceedingsTitle
        q == item.publicationTitle
        c == item.conferenceName
    IN /\ (Readable(p) /\ MatchOf(p) # Null) => itemEntry = MatchOf(p)
       /\ (/\ Readable(p) /\ MatchOf(p) = Null
           /\ Readable(q) /\ MatchOf(q) # Null) => itemEntry = MatchOf(q)
       /\ (/\ Readable(p) /\ MatchOf(p) = Null
           /\ Readable(q) /\ MatchOf(q) = Null
           /\ Readable(c) /\ MatchOf(c) # Null) => itemEntry = MatchOf(c)

\* a conferencePaper whose proceedingsTitle is non-empty and matches
\* nothing, whose publicationTitle matches, and whose conferenceName
\* matches another entry: the publicationTitle's entry is returned
C8_Witness ==
  /\ ItemCalled /\ item.itemType = "conferencePaper"
  /\ Readable(item.proceedingsTitle) /\ Truthy(item.proceedingsTitle)
  /\ MatchOf(item.proceedingsTitle) = Null
  /\ Readable(item.publicationTitle) /\ MatchOf(item.publicationTitle) # Null
  /\ Readable(item.conferenceName) /\ MatchOf(item.conferenceName) # Null
  /\ MatchOf(item.conferenceName) # MatchOf(item.publicationTitle)
  /\ itemEntry = MatchOf(item.publicationTitle)

\* the title fallback's entry for a title that was read
TitleMatchOf(t) ==
  IF Truthy(t) /\ TitleToken(t) # Undefined
  THEN getEntry(StripQuoteSuffix(TitleToken(t))).entry
  ELSE Null

\* C9 as stated: for a journalArticle the result is the Matcher's result on
\* publicationTitle, and null when publicationTitle is empty or matches
\* nothing, whatever the other fields and the title contain.
C9_JournalPublicationTitleOnly_Original ==
  (ItemCalled /\ item.itemType = "journalArticle"
     /\ Readable(item.publicationTitle)) =>
    itemEntry = MatchOf(item.publicationTitle)

\* C9 as amended: for a journalArticle the result is the Matcher's result on
\* publicationTitle when that is non-null; when publicationTitle is empty or
\* matches nothing, proceedingsTitle and conferenceName are not tried, and
\* the result is the title fallback's: the Matcher's result on the
\* parenthesized upper-case token of the title, null when the title has no
\* such token or the token matches nothing.  (A read of publicationTitle or
\* of title that throws gives null.)
C9_JournalPublicationTitleThenTitle ==
  (ItemCalled /\ item.itemType = "journalArticle") =>
    LET q == item.publicationTitle
        t == item.title
    IN IF ~Readable(q) THEN itemEntry = Null
       ELSE IF MatchOf(q) # Null THEN itemEntry = MatchOf(q)
       ELSE IF ~Readable(t) THEN itemEntry = Null
       ELSE itemEntry = TitleMatchOf(t)

\* a journalArticle whose publicationTitle matches nothing, whose
\* proceedingsTitle would match, and whose title carries a token that
\* matches another entry: the title's entry is returned
C9_Witness ==
  /\ ItemCalled /\ item.itemType = "journalArticle"
  /\ Readable(item.publicationTitle) /\ MatchOf(item.publicationTitle) = Null
  /\ Readable(item.proceedingsTitle) /\ MatchOf(item.proceedingsTitle) # Null
  /\ Readable(item.title) /\ TitleMatchOf(item.title) # Null
  /\ TitleMatchOf(item.title) # MatchOf(item.proceedingsTitle)
  /\ itemEntry = TitleMatchOf(item.title)

\* the steps of the item's type with every field that is missing, empty or
\* unreadable skipped
RECURSIVE RunSkipping(_, _)
RunSkipping(steps, i) ==
  IF i > Len(steps) THEN Null
  ELSE IF steps[i].kind = "return" THEN steps[i].entry
  ELSE RunSkipping(steps, i + 1)

\* C10 as stated: a field that is missing, empty or whose read fails is
\* skipped and the remaining fields of the chain are still tried, so the
\* result is the entry of the first field of the chain that can be read and
\* matches.
C10_UnavailableFieldsSkipped ==
  ItemCalled =>
    itemEntry =
      RunSkipping(
        (IF item.itemType = "conferencePaper" THEN ConferenceSteps(item) ELSE <<>>)
        \o (IF item.itemType = "journalArticle" THEN JournalSteps(item) ELSE <<>>)
        \o FallbackSteps(item), 1)

(***************************************************************************)
(* ManualCCFRankService.  cache is a Map and ignoreSet a Set, each the     *)
(* sequence of its members in insertion order.  A preference holds what    *)
(* JSON.stringify wrote: for the ranks the object's [key, value] pairs,    *)
(* the keys decimal strings in ascending numeric order (the order of       *)
(* integer-like property names), for the ignore list the array.            *)
(***************************************************************************)
DigitChars == <<"0","1","2","3","4","5","6","7","8","9">>

\* String(n) of a non-negative integer: the property name of obj[key]
RECURSIVE ToKey(_)
ToKey(n) ==
  IF n < 10 THEN <<DigitChars[n + 1]>>
  ELSE Append(ToKey(n \div 10), DigitChars[(n % 10) + 1])

DigitValue(c) == (CHOOSE i \in DOMAIN DigitChars : DigitChars[i] = c) - 1

\* parseInt(k) of a string of digits
RECURSIVE parseInt(_)
parseInt(k) ==
  IF Len(k) = 1 THEN DigitValue(k[1])
  ELSE 10 * parseInt(SubSeq(k, 1, Len(k) - 1)) + DigitValue(k[Len(k)])

MapHas(m, k) == \E i \in DOMAIN m : m[i].key = k
MapDelete(m, k) == SelectSeq(m, LAMBDA e : e.key # k)
MapKeys(m) == {m[i].key : i \in DOMAIN m}

SetHas(q, x) == \E i \in DOMAIN q : q[i] = x
SetAdd(q, x) == IF SetHas(q, x) THEN q ELSE Append(q, x)
SetDelete(q, x) == SelectSeq(q, LAMBDA e : e # x)

\* the members of a set of numbers in ascending order
RECURSIVE Ascending(_)
Ascending(S) ==
  IF S = {} THEN <<>>
  ELSE LET least == CHOOSE x \in S : \A y \in S : x <= y
       IN <<least>> \o Ascending(S \ {least})

\* lines 322-326: JSON.stringify(obj), obj[key] = value for each of cache
StringifyRanks(c) ==
  LET keys == Ascending(MapKeys(c))
  IN [i \in DOMAIN keys |-> [key |-> ToKey(keys[i]), value |-> MapGet(c, keys[i])]]

\* lines 329-330: JSON.stringify(Array.from(ignoreSet))
StringifyIgnored(q) == q

SaveOutcomes == {"ok", "ranks write throws", "ignore write throws"}

\* saveToStorage that forgets the ignore list
saveToStorageRanksOnly(st, outcome) ==
  [st EXCEPT !.prefRanks = Pref(StringifyRanks(st.cache)), !.lastSave = outcome]

\* lines 319-338.  outcome: both Zotero.Prefs.set calls succeed, or the
\* first throws (nothing is written), or the second throws (only the ranks
\* are written); the catch block swallows the exception.
saveToStorage(st, outcome) ==
  [st EXCEPT
     !.prefRanks = IF outcome = "ranks write throws" THEN @
                   ELSE Pref(StringifyRanks(st.cache)),
     !.prefIgnore = IF outcome = "ok" THEN Pref(StringifyIgnored(st.ignoreSet))
                    ELSE @,
     !.lastSave = outcome]

\* lines 345-350
setRank(st, itemID, rank, outcome) ==
  saveToStorage([st EXCEPT !.cache = MapSet(@, itemID, rank),
                           !.ignoreSet = SetDelete(@, itemID)], outcome)

\* lines 357-359
getRank(st, itemID) ==
  IF MapHas(st.cache, itemID) THEN MapGet(st.cache, itemID) ELSE NullRank

\* clearRank that leaves the item in the ignore set
clearRankKeepingIgnored(st, itemID, outcome) ==
  saveToStorage([st EXCEPT !.cache = MapDelete(@, itemID)], outcome)

\* lines 365-370
clearRank(st, itemID, outcome) ==
  saveToStorage([st EXCEPT !.cache = MapDelete(@, itemID),
                           !.ignoreSet = SetDelete(@, itemID)], outcome)

\* ignoreItem that keeps the stored rank
ignoreItemKeepingRank(st, itemID, outcome) ==
  saveToStorage([st EXCEPT !.ignoreSet = SetAdd(@, itemID)], outcome)

\* lines 384-389
ignoreItem(st, itemID, outcome) ==
  saveToStorage([st EXCEPT !.ignoreSet = SetAdd(@, itemID),
                           !.cache = MapDelete(@, itemID)], outcome)

\* lines 395-397
isIgnored(st, itemID) == SetHas(st.ignoreSet, itemID)

\* new Map(pairs), line 294
RECURSIVE NewMap(_, _)
NewMap(pairs, n) ==
  IF n = 0 THEN <<>>
  ELSE MapSet(NewMap(pairs, n - 1), pairs[n].key, pairs[n].value)

\* new Set(array), line 306
RECURSIVE NewSet(_, _)
NewSet(array, n) ==
  IF n = 0 THEN <<>> ELSE SetAdd(NewSet(array, n - 1), array[n])

\* lines 288-314: the cache and the ignoreSet of a service constructed over
\* the preferences pr (ranks) and pi (ignore list); a preference never set
\* leaves the empty default
loadFromStorage(pr, pi) ==
  [cache |->
     IF ~pr.set THEN <<>>
     ELSE NewMap([i \in DOMAIN pr.value |->
                    [key |-> parseInt(pr.value[i].key),
                     value |-> pr.value[i].value]], Len(pr.value)),
   ignoreSet |-> IF ~pi.set THEN <<>> ELSE NewSet(pi.value, Len(pi.value))]

(***************************************************************************)
(* CCFRankFactory: the ccfRank column and the three menu commands.         *)
(***************************************************************************)
\* the library: two items, and the item of each id.  Item 10 is a
\* conference paper of NET (which the Matcher ranks A), item 9 a journal
\* article of a venue the table does not have.
ItemIDs == {9, 10}

Library(id) ==
  IF id % 2 = 0
  THEN [itemType |-> "conferencePaper", proceedingsTitle |-> <<"N","E","T">>,
        publicationTitle |-> <<>>, conferenceName |-> <<>>,
        \* "A paper"
        title |-> <<"A"," ","p","a","p","e","r">>]
  ELSE [itemType |-> "journalArticle", proceedingsTitle |-> <<>>,
        \* "Unknown venue"
        publicationTitle |-> <<"U","n","k","n","o","w","n"," ","v","e","n","u","e">>, conferenceName |-> <<>>,
        \* "A paper"
        title |-> <<"A"," ","p","a","p","e","r">>]

EmptyText == ""

\* a dataProvider that asks the Matcher before the manual rank
dataProviderMatcherFirst(st, id) ==
  LET manualRank == getRank(st, id)
      rank == getRankFromItem(Library(id))
  IN IF isIgnored(st, id) THEN EmptyText
     ELSE IF rank # NullRank THEN rank
     ELSE IF manualRank # NullRank THEN manualRank
     ELSE EmptyText

\* lines 416-428: the dataProvider of the ccfRank column, for the item of id
dataProvider(st, id) ==
  LET manualRank == getRank(st, id)
      rank == getRankFromItem(Library(id))
  IN IF isIgnored(st, id) THEN EmptyText
     ELSE IF manualRank # NullRank THEN manualRank
     ELSE IF rank # NullRank THEN rank
     ELSE EmptyText

\* refreshAndMaintainSelection (lines 538-541, 561-564, 584-587): every row
\* asks the dataProvider again
Refreshed(st) == [id \in ItemIDs |-> dataProvider(st, id)]

Store ==
  [cache |-> cache, ignoreSet |-> ignoreSet, prefRanks |-> prefRanks,
   prefIgnore |-> prefIgnore, lastSave |-> lastSave]

\* the selections getSelectedItems can give: the items of a set of ids, in
\* the order of the rows
Selections == {Ascending(S) : S \in SUBSET ItemIDs}

\* items.forEach((item) => manualRankService.<op>(item.id ...)), from the
\* i-th selected item on; outcomes[i] is how the i-th call's save ends
RECURSIVE ForEach(_, _, _, _, _, _)
ForEach(st, op, sel, rank, outcomes, i) ==
  IF i > Len(sel) THEN st
  ELSE ForEach(
         (IF op = "setRank" THEN setRank(st, sel[i], rank, outcomes[i])
          ELSE IF op = "clearRank" THEN clearRank(st, sel[i], outcomes[i])
          ELSE ignoreItem(st, sel[i], outcomes[i])),
         op, sel, rank, outcomes, i + 1)

\* the effect of a menu command on a non-empty selection
Command(op, sel, rank, outcomes) ==
  LET st == ForEach(Store, op, sel, rank, outcomes, 1)
  IN /\ sel # <<>>
     /\ cache' = st.cache
     /\ ignoreSet' = st.ignoreSet
     /\ prefRanks' = st.prefRanks
     /\ prefIgnore' = st.prefIgnore
     /\ lastSave' = st.lastSave
     /\ lastCall' = [op |-> op, ids |-> Range(sel)]
     /\ column' = Refreshed(st)
     /\ UNCHANGED <<svcVars, matchVars, itemVars>>

\* setManualRank, lines 526-544
SetManualRank(sel, rank, outcomes) == Command("setRank", sel, rank, outcomes)

\* clearManualRank, lines 549-567
ClearManualRank(sel, outcomes) == Command("clearRank", sel, "A", outcomes)

\* ignoreItems, lines 572-590
IgnoreItems(sel, outcomes) == Command("ignoreItem", sel, "A", outcomes)

\* lines 528-531, 551-554, 574-577: a command with nothing selected returns
NothingSelected == UNCHANGED vars

\* the services constructed over empty preferences, and the column
\* registered and drawn
Init ==
  /\ Construct(DefaultData)
  /\ IdleMatch /\ IdleItem
  /\ prefRanks = NoPref /\ prefIgnore = NoPref
  /\ cache = loadFromStorage(NoPref, NoPref).cache
  /\ ignoreSet = loadFromStorage(NoPref, NoPref).ignoreSet
  /\ lastSave = "none" /\ lastCall = NoCall
  /\ column = Refreshed([cache |-> <<>>, ignoreSet |-> <<>>])

Next ==
  \/ \E sel \in Selections, rank \in Ranks :
       \E outcomes \in [DOMAIN sel -> SaveOutcomes] :
         SetManualRank(sel, rank, outcomes)
  \/ \E sel \in Selections : \E outcomes \in [DOMAIN sel -> SaveOutcomes] :
       ClearManualRank(sel, outcomes)
  \/ \E sel \in Selections : \E outcomes \in [DOMAIN sel -> SaveOutcomes] :
       IgnoreItems(sel, outcomes)
  \/ NothingSelected

Spec == Init /\ [][Next]_vars

(***************************************************************************)
(* Properties of the Manual Override Store and of the ccfRank column,      *)
(* checked under Spec.                                                      *)
(***************************************************************************)
\* C1: no item id is at the same time in the stored-rank map and in the
\* ignore set; after setRank the selected items have a rank and are not
\* ignored, after ignoreItem they are ignored and getRank gives null.
C1_RankAndIgnoreExclusive ==
  /\ \A id \in ItemIDs : ~(MapHas(cache, id) /\ SetHas(ignoreSet, id))
  /\ lastCall.op = "setRank" =>
       \A id \in lastCall.ids :
         ~isIgnored(Store, id) /\ getRank(Store, id) # NullRank
  /\ lastCall.op = "ignoreItem" =>
       \A id \in lastCall.ids :
         isIgnored(Store, id) /\ getRank(Store, id) = NullRank

\* an item that had a rank (the preference, whose rewrite failed, still
\* holds it) and was then ignored
C1_Witness ==
  /\ lastCall.op = "ignoreItem"
  /\ prefRanks.set
  /\ \E id \in lastCall.ids :
       /\ \E i \in DOMAIN prefRanks.value : prefRanks.value[i].key = ToKey(id)
       /\ isIgnored(Store, id)
       /\ getRank(Store, id) = NullRank

\* C2: the column shows, for every item, the empty string if the item is
\* ignored; otherwise its manual rank if one is stored, even when the
\* Matcher gives another rank; otherwise the Matcher's rank, or the empty
\* string when nothing matches.
C2_OverridePrecedence ==
  \A id \in ItemIDs :
    column[id] =
      IF SetHas(ignoreSet, id) THEN ""
      ELSE IF MapHas(cache, id) THEN MapGet(cache, id)
      ELSE IF getEntryFromItem(Library(id)) # Null
           THEN getEntryFromItem(Library(id)).rank
      ELSE ""

\* an item the Matcher ranks A, shown with its manual rank B, beside an
\* ignored item shown empty
C2_Witness ==
  \E id, other \in ItemIDs :
    /\ getEntryFromItem(Library(id)) # Null
    /\ getEntryFromItem(Library(id)).rank = "A"
    /\ MapHas(cache, id) /\ MapGet(cache, id) = "B"
    /\ column[id] = "B"
    /\ SetHas(ignoreSet, other) /\ column[other] = ""

\* a Map as the set of its <<key, value>> pairs
AsMapping(m) == {<<m[i].key, m[i].value>> : i \in DOMAIN m}

\* what a service constructed now would load
Reloaded == loadFromStorage(prefRanks, prefIgnore)

PersistedEqualsMemory ==
  /\ AsMapping(Reloaded.cache) = AsMapping(cache)
  /\ Range(Reloaded.ignoreSet) = Range(ignoreSet)
  /\ \A id \in ItemIDs :
       ~(MapHas(Reloaded.cache, id) /\ SetHas(Reloaded.ignoreSet, id))

StaleOnFailure ==
  (lastCall'.op # "none" /\ Cardinality(lastCall'.ids) = 1) =>
    /\ lastSave' = "ranks write throws" =>
         prefRanks' = prefRanks /\ prefIgnore' = prefIgnore
    /\ lastSave' = "ignore write throws" =>
         /\ prefRanks' = Pref(StringifyRanks(cache'))
         /\ prefIgnore' = prefIgnore

AutomaticText(id) ==
  IF getRankFromItem(Library(id)) # NullRank
  THEN getRankFromItem(Library(id))
  ELSE EmptyText

\* the items a clearManualRank command leaves automatic
ClearedAutomatic ==
  lastCall.op = "clearRank" =>
    \A id \in lastCall.ids :
      /\ getRank(Store, id) = NullRank
      /\ ~isIgnored(Store, id)
      /\ column[id] = AutomaticText(id)

\* a clearManualRank command leaves the items it was not given as they were
OthersUntouched ==
  lastCall'.op = "clearRank" =>
    \A other \in ItemIDs \ lastCall'.ids :
      /\ MapHas(cache', other) = MapHas(cache, other)
      /\ MapGet(cache', other) = MapGet(cache, other)
      /\ SetHas(ignoreSet', other) = SetHas(ignoreSet, other)

\* C11: whatever was set or ignored before, after clearRank(id) getRank(id)
\* is null and isIgnored(id) is false, so the column shows the Matcher's
\* rank for the item (the empty string when nothing matches); and the call
\* changes the stored rank and the ignored status of no other item.
C11_ClearReturnsToAutomatic ==
  /\ []ClearedAutomatic
  /\ [][OthersUntouched]_vars

\* an item that had a manual rank (the preference, whose rewrite failed,
\* still holds it), cleared and shown with the Matcher's rank A, beside an
\* item not selected that keeps its manual rank
C11_Witness ==
  /\ lastCall.op = "clearRank"
  /\ prefRanks.set
  /\ \E id \in lastCall.ids, other \in ItemIDs \ lastCall.ids :
       /\ \E i \in DOMAIN prefRanks.value : prefRanks.value[i].key = ToKey(id)
       /\ getRank(Store, id) = NullRank /\ ~isIgnored(Store, id)
       /\ column[id] = "A"
       /\ getRank(Store, other) # NullRank
       /\ column[other] = getRank(Store, other)

====
